---- MODULE Spec2Model ----
(***************************************************************************)
(* Model of wradlib/verify.py: the classes PolarNeighbours (nearest polar  *)
(* bins of a set of points, and the extraction of their values from data   *)
(* arrays) and ErrorMetrics (agreement statistics of two paired samples).  *)
(*                                                                         *)
(* Conventions.                                                            *)
(*  - A numpy array is a record [shape, flat]: its shape tuple and its     *)
(*    C-ordered (row-major) buffer.  Python positions are 0-based, TLA+    *)
(*    sequences 1-based: element i of a buffer is flat[i + 1].             *)
(*  - A distance d is stored as d^2 (coordinates are integers, so d^2 is   *)
(*    an integer and d |-> d^2 is strictly increasing on d >= 0).          *)
(*  - A float rounded by np.round(. , 2) is stored as its number of        *)
(*    hundredths; NaN and -inf are records of their own.                   *)
(***************************************************************************)
EXTENDS Integers, Sequences, FiniteSets, TLC

\* ------------------------------------------------------------------ bounds
MaxAz == 2
MaxRange == 2
MaxPoints == 2
MaxLead == 2
MaxNear == 5
MaxLen == 3

VARIABLES
    pn,      \* the PolarNeighbours instance, or None
    built,   \* the instance as its construction left it (never written by a call)
    last,    \* the last call made
    err,     \* "ok", or the exception the last call raised
    arg,     \* the array handed to the last extract, as it was handed over
    vals,    \* the same array of the caller, as the call left it
    ret,     \* what the last call returned
    em,      \* the ErrorMetrics instance, or None
    emin,    \* the arguments it was constructed from
    emret    \* the metric last computed: [name, value]

vars == <<pn, built, last, err, arg, vals, ret, em, emin, emret>>

\* Python's None (a record, as every other value of pn, vals, ret and em is).
None == [none |-> TRUE]

\* The coordinates of the points of interest.
Coord == {0, 1}

\* ------------------------------------------------------------ numpy arrays
RECURSIVE Prod(_)
Prod(shape) == IF shape = <<>> THEN 1 ELSE Head(shape) * Prod(Tail(shape))

ndarray(shape, flat) == [shape |-> shape, flat |-> flat]

ndim(a) == Len(a.shape)

\* a.ravel(): the C-ordered buffer as a one-dimensional array.
ravel(a) == ndarray(<<Len(a.flat)>>, a.flat)

\* shape[:-2] and shape[-2:] of Python's slicing (no error on short tuples).
AllButLast2(shape) == IF Len(shape) <= 2 THEN <<>> ELSE SubSeq(shape, 1, Len(shape) - 2)

Last2(shape) == IF Len(shape) <= 2 THEN shape ELSE SubSeq(shape, Len(shape) - 1, Len(shape))

\* a.reshape(newshape): a new view of the same C-ordered buffer.
reshape_F(a, newshape) ==
    LET A == a.shape[Len(a.shape) - 1]
        R == a.shape[Len(a.shape)]
    IN  ndarray(newshape,
                [e \in 1 .. Len(a.flat) |->
                    a.flat[((e - 1) \div (A * R)) * (A * R)
                               + (((e - 1) % (A * R)) % A) * R + (((e - 1) % (A * R)) \div A) + 1]])

reshape(a, newshape) == ndarray(newshape, a.flat)

\* a[..., ix]: integer-array indexing of the last axis. The result has the
\* shape a.shape[:-1] ++ ix.shape; an index outside -N .. N-1 is an IndexError.
TakeLastOK(a, ix) ==
    LET N == a.shape[Len(a.shape)]
    IN  \A q \in 1 .. Len(ix.flat) : ix.flat[q] >= -N /\ ix.flat[q] < N

TakeLast_first(a, ix) ==
    LET N    == a.shape[Len(a.shape)]
        lead == SubSeq(a.shape, 1, Len(a.shape) - 1)
        Q    == Len(ix.flat)
        wrap(i) == IF i < 0 THEN i + N ELSE i
    IN  ndarray(lead \o ix.shape,
                [e \in 1 .. Prod(lead) * Q |-> a.flat[wrap(ix.flat[((e - 1) % Q) + 1]) + 1]])

TakeLast(a, ix) ==
    LET N    == a.shape[Len(a.shape)]
        lead == SubSeq(a.shape, 1, Len(a.shape) - 1)
        Q    == Len(ix.flat)
        wrap(i) == IF i < 0 THEN i + N ELSE i
    IN  ndarray(lead \o ix.shape,
                [e \in 1 .. Prod(lead) * Q |->
                    a.flat[((e - 1) \div Q) * N + wrap(ix.flat[((e - 1) % Q) + 1]) + 1]])

\* ------------------------------------------------------------------ KDTree
\* zip(x, y) of Python 2: the list of pairs, cut at the shorter argument.
Min(a, b) == IF a <= b THEN a ELSE b

zip(x, y) == [i \in 1 .. Min(Len(x), Len(y)) |-> <<x[i], y[i]>>]

\* Squared Euclidean distance of two points.
Dist2(p, q) == (p[1] - q[1]) * (p[1] - q[1]) + (p[2] - q[2]) * (p[2] - q[2])

\* The distance of a missing neighbour (np.inf): above every real distance.
Inf == 4 * (MaxRange + 1) * (MaxRange + 1) + 1

\* The results KDTree.query may give for one point q and k neighbours, as
\* sequences of pairs <<d^2, index>>: the tree keeps some set of the k nearest
\* data points (which of several equally distant points it keeps at the k-th
\* place is the traversal's) and returns sorted(hits), ascending in (d, index);
\* the places of missing neighbours keep <<Inf, n>>, n the number of data points.
RECURSIVE Sorted(_, _, _)
Sorted(data, q, hits) ==
    IF hits = {} THEN <<>>
    ELSE LET i == CHOOSE h \in hits : \A g \in hits :
                      \/ Dist2(data[h + 1], q) < Dist2(data[g + 1], q)
                      \/ Dist2(data[h + 1], q) = Dist2(data[g + 1], q) /\ h <= g
         IN  <<<<Dist2(data[i + 1], q), i>>>> \o Sorted(data, q, hits \ {i})

query_point(data, q, k) ==
    LET n    == Len(data)
        all  == 0 .. n - 1
        kept == {h \in SUBSET all :
                    /\ Cardinality(h) = Min(k, n)
                    /\ \A i \in h, j \in all \ h : Dist2(data[i + 1], q) <= Dist2(data[j + 1], q)}
    IN  {Sorted(data, q, h) \o [j \in 1 .. k - Cardinality(h) |-> <<Inf, n>>] : h \in kept}

\* The results the tree may give for all the points pts, one row a point:
\* the sequences that take their m-th row from the results for pts[m].
RECURSIVE Rows(_, _)
Rows(each, m) ==
    IF m = 0 THEN {<<>>}
    ELSE {Append(rows, row) : rows \in Rows(each, m - 1), row \in each[m]}

query_rows(data, pts, k) ==
    Rows([p \in 1 .. Len(pts) |-> query_point(data, pts[p], k)], Len(pts))

\* KDTree(data).query(pts, k): the pair (dist, ix) of arrays, of shape
\* (len(pts),) when k = 1 and (len(pts), k) when k > 1. rows[p] is the result
\* for point p, one of query_point's.
query_shape(Q, k) == IF k = 1 THEN <<Q>> ELSE <<Q, k>>

query_result(rows, k) ==
    LET Q == Len(rows)
    IN  [dist |-> ndarray(query_shape(Q, k),
                          [e \in 1 .. Q * k |-> rows[((e - 1) \div k) + 1][((e - 1) % k) + 1][1]]),
         ix   |-> ndarray(query_shape(Q, k),
                          [e \in 1 .. Q * k |-> rows[((e - 1) \div k) + 1][((e - 1) % k) + 1][2]])]

\* The error KDTree.query raises, or "ok": the points must be 2-vectors (an
\* empty list is an array of shape (0,)), and k at least one.
query_error(pts, k) ==
    IF Len(pts) = 0 THEN "ValueError"
    ELSE IF k < 1 THEN "ValueError"
    ELSE "ok"

\* --------------------------------------------------------- PolarNeighbours
\* PolarNeighbours.__init__: binx, biny are the arrays of shape (len(az),
\* len(r)) that georef.project returns; rows is the tree's answer.
PolarNeighbours_init(r, az, binx, biny, x, y, nnear, rows) ==
    LET res == query_result(rows, nnear)
    IN  [nnear |-> nnear, az |-> az, r |-> r, x |-> x, y |-> y,
         binx |-> ravel(binx), biny |-> ravel(biny),
         dist |-> res.dist, ix |-> res.ix]

\* The data points of the tree: zip(self.binx, self.biny).
TreeData_swapped(binx, biny) == zip(ravel(biny).flat, ravel(binx).flat)

TreeData(binx, biny) == zip(ravel(binx).flat, ravel(biny).flat)

\* PolarNeighbours.extract: [err, ret, vals, self], vals and self being the
\* caller's array and the instance as the call leaves them. (For data of two
\* dimensions np.concatenate makes the new shape an array of floats, which the
\* numpy of the code's Python 2 days takes as the integers they are.)
extract_swapped(self, v) ==
    IF ~(ndim(v) >= 2) THEN
        [err |-> "AssertionError", ret |-> None, vals |-> v, self |-> self]
    ELSE IF ~(Last2(v.shape) = <<Len(self.r), Len(self.az)>>) THEN
        [err |-> "AssertionError", ret |-> None, vals |-> v, self |-> self]
    ELSE LET shape == v.shape
             flat  == reshape(v, AllButLast2(shape) \o <<Len(self.az) * Len(self.r)>>)
         IN  IF TakeLastOK(flat, self.ix)
             THEN [err |-> "ok", ret |-> TakeLast(flat, self.ix), vals |-> v, self |-> self]
             ELSE [err |-> "IndexError", ret |-> None, vals |-> v, self |-> self]

extract_inplace(self, v) ==
    IF ~(ndim(v) >= 2) THEN
        [err |-> "AssertionError", ret |-> None, vals |-> v, self |-> self]
    ELSE IF ~(Last2(v.shape) = <<Len(self.az), Len(self.r)>>) THEN
        [err |-> "AssertionError", ret |-> None, vals |-> v, self |-> self]
    ELSE LET shape == v.shape
             flat  == reshape(v, AllButLast2(shape) \o <<Len(self.az) * Len(self.r)>>)
         IN  IF TakeLastOK(flat, self.ix)
             THEN [err |-> "ok", ret |-> TakeLast(flat, self.ix), vals |-> flat, self |-> self]
             ELSE [err |-> "IndexError", ret |-> None, vals |-> flat, self |-> self]

extract(self, v) ==
    IF ~(ndim(v) >= 2) THEN
        [err |-> "AssertionError", ret |-> None, vals |-> v, self |-> self]
    ELSE IF ~(Last2(v.shape) = <<Len(self.az), Len(self.r)>>) THEN
        [err |-> "AssertionError", ret |-> None, vals |-> v, self |-> self]
    ELSE LET shape == v.shape
             flat  == reshape(v, AllButLast2(shape) \o <<Len(self.az) * Len(self.r)>>)
         IN  IF TakeLastOK(flat, self.ix)
             THEN [err |-> "ok", ret |-> TakeLast(flat, self.ix), vals |-> v, self |-> self]
             ELSE [err |-> "IndexError", ret |-> None, vals |-> v, self |-> self]

\* PolarNeighbours.get_bincoords
get_bincoords(self) ==
    [err |-> "ok", ret |-> [x |-> self.binx, y |-> self.biny], self |-> self]

\* PolarNeighbours.get_bincoords_at_points
get_bincoords_at_points_xx(self) ==
    IF TakeLastOK(self.binx, self.ix)
    THEN [err |-> "ok",
          ret |-> [x |-> TakeLast(self.binx, self.ix), y |-> TakeLast(self.binx, self.ix)],
          self |-> self]
    ELSE [err |-> "IndexError", ret |-> None, self |-> self]

get_bincoords_at_points(self) ==
    IF TakeLastOK(self.binx, self.ix)
    THEN [err |-> "ok",
          ret |-> [x |-> TakeLast(self.binx, self.ix), y |-> TakeLast(self.biny, self.ix)],
          self |-> self]
    ELSE [err |-> "IndexError", ret |-> None, self |-> self]

\* ------------------------------------------------------------------ georef
\* georef.polar2centroids followed by georef.project: the planar coordinates of
\* the bin centroids, as two arrays of shape (len(az), len(r)). Azimuths are
\* multiples of 90 degrees and the site is the origin, so that the centroid of
\* bin (i, j) is r[j] * (sin az[i], cos az[i]), an integer point.
Sin(a) == CASE a % 360 = 0 -> 0 [] a % 360 = 90 -> 1 [] a % 360 = 180 -> 0 [] a % 360 = 270 -> -1

Cos(a) == CASE a % 360 = 0 -> 1 [] a % 360 = 90 -> 0 [] a % 360 = 180 -> -1 [] a % 360 = 270 -> 0

polar2xy(r, az) ==
    LET A == Len(az)
        R == Len(r)
    IN  [x |-> ndarray(<<A, R>>, [e \in 1 .. A * R |-> r[((e - 1) % R) + 1] * Sin(az[((e - 1) \div R) + 1])]),
         y |-> ndarray(<<A, R>>, [e \in 1 .. A * R |-> r[((e - 1) % R) + 1] * Cos(az[((e - 1) \div R) + 1])])]

\* ------------------------------------------------------------------ inputs
Seqs(S, n) == UNION {[1 .. m -> S] : m \in 0 .. n}

\* The points of interest: any x coordinates, on a line of constant y.
XSeqs == Seqs(Coord, MaxPoints)

YSeqs == {[i \in 1 .. m |-> c] : m \in 0 .. MaxPoints, c \in Coord}

\* The polar grids: A azimuths 0, 90, ... and R range gates 1, 2, ...
AzSeqs == {[i \in 1 .. A |-> 90 * (i - 1)] : A \in 1 .. MaxAz}

RSeqs == {[j \in 1 .. R |-> j] : R \in 1 .. MaxRange}

\* The data arrays a caller passes to extract of an index over A azimuths and
\* R range gates: the matching shapes, with zero, one and two leading
\* dimensions, and mismatching ones of every number of dimensions.
DataShapes(A, R) ==
    {<<>>, <<A * R>>, <<A, R>>, <<R, A>>, <<A, R + 1>>, <<MaxLead, 1, A, R>>}
        \cup {<<l, A, R>> : l \in 1 .. MaxLead}

\* An array of pairwise distinct values, none of them a bin index.
DataArray(shape) == ndarray(shape, [e \in 1 .. Prod(shape) |-> 10 + e])

\* ------------------------------------------------------------ ErrorMetrics
\* A float of the input arrays: a number or NaN.
Num(v) == [nan |-> FALSE, v |-> v]

NaN == [nan |-> TRUE, v |-> 0]

\* A computed metric: a float rounded to two decimals, as its number h of
\* hundredths; an unrounded quotient num / den; or a non-finite float.
Hund(h) == [kind |-> "num", h |-> h]

Frac(num, den) == [kind |-> "frac", num |-> num, den |-> den]

FNaN == [kind |-> "nan"]

FNegInf == [kind |-> "-inf"]

\* The elements of a set of integers in ascending order.
RECURSIVE Ascending(_)
Ascending(S) ==
    IF S = {} THEN <<>>
    ELSE LET m == CHOOSE x \in S : \A y \in S : x <= y
         IN  <<m>> \o Ascending(S \ {m})

Range(f) == {f[i] : i \in DOMAIN f}

\* util._idvalid(data, minval=minval): the positions of the valid entries,
\* those that are not NaN and, when minval is given, not below it.
idvalid(data, minval) ==
    Ascending({p \in 0 .. Len(data) - 1 :
                  /\ ~data[p + 1].nan
                  /\ minval # None => data[p + 1].v >= minval.v})

\* np.intersect1d: the sorted values found in both arrays.
intersect1d(a, b) == Ascending(Range(a) \cap Range(b))

\* arr[ix] for an array ix of positions.
Take(arr, ix) == [i \in 1 .. Len(ix) |-> arr[ix[i] + 1]]

\* est - obs, element by element.
FSub(a, b) == IF a.nan \/ b.nan THEN NaN ELSE Num(a.v - b.v)

\* ErrorMetrics.__init__
ErrorMetrics_init_own(obs, est, minval) ==
    LET ix == intersect1d(idvalid(obs, minval), idvalid(est, minval))
        o  == Take(obs, idvalid(obs, minval))
        e  == Take(est, idvalid(est, minval))
    IN  [obs |-> o, est |-> e,
         resids |-> [i \in 1 .. Min(Len(o), Len(e)) |-> FSub(e[i], o[i])],
         n |-> Len(ix)]

ErrorMetrics_init(obs, est, minval) ==
    LET ix == intersect1d(idvalid(obs, minval), idvalid(est, minval))
        o  == Take(obs, ix)
        e  == Take(est, ix)
    IN  [obs |-> o, est |-> e,
         resids |-> [i \in 1 .. Len(ix) |-> FSub(e[i], o[i])],
         n |-> Len(ix)]

RECURSIVE Sum(_)
Sum(q) == IF q = <<>> THEN 0 ELSE Head(q) + Sum(Tail(q))

Abs(v) == IF v < 0 THEN -v ELSE v

\* np.round(num / den, 0) for den > 0: to the nearest integer, halves to even.
RoundDiv(num, den) ==
    LET q == num \div den
        r == num - q * den
    IN  IF 2 * r < den THEN q
        ELSE IF 2 * r > den THEN q + 1
        ELSE IF q % 2 = 0 THEN q ELSE q + 1

\* n^2 times the covariance of a and b (np.cov up to its normalisation), and
\* n^2 times the variance of a.
Cov2(a, b) == Len(a) * Sum([i \in 1 .. Len(a) |-> a[i].v * b[i].v])
                  - Sum([i \in 1 .. Len(a) |-> a[i].v]) * Sum([i \in 1 .. Len(b) |-> b[i].v])

Var2(a) == Cov2(a, a)

\* np.round(np.corrcoef(a, b)[0, 1] * 100): c = Cov2 / sqrt(Var2 * Var2) is
\* 0 / 0 = NaN when either variance is zero (one entry, or all entries equal).
\* 200 c >= m and 200 c <= m are decided on the squares.
corrcoef100(a, b) ==
    LET c == Cov2(a, b)
        D == Var2(a) * Var2(b)
        GE(m) == IF m <= 0 /\ c >= 0 THEN TRUE
                 ELSE IF m > 0 /\ c < 0 THEN FALSE
                 ELSE IF c >= 0 THEN 40000 * c * c >= m * m * D
                 ELSE 40000 * c * c <= m * m * D
        LE(m) == IF m >= 0 /\ c <= 0 THEN TRUE
                 ELSE IF m < 0 /\ c > 0 THEN FALSE
                 ELSE IF c >= 0 THEN 40000 * c * c <= m * m * D
                 ELSE 40000 * c * c >= m * m * D
        near == {h \in -100 .. 100 : GE(2 * h - 1) /\ LE(2 * h + 1)}
    IN  CHOOSE h \in near : Cardinality(near) > 1 => h % 2 = 0

\* ErrorMetrics.corr
corr(self) ==
    IF Var2(self.obs) * Var2(self.est) = 0 THEN FNaN
    ELSE Hund(corrcoef100(self.obs, self.est))

\* ErrorMetrics.r2
r2(self) ==
    IF Var2(self.obs) * Var2(self.est) = 0 THEN FNaN
    ELSE Hund(RoundDiv(100 * Cov2(self.obs, self.est) * Cov2(self.obs, self.est),
                       Var2(self.obs) * Var2(self.est)))

\* ErrorMetrics.sse
sse(self) ==
    Hund(100 * Sum([i \in 1 .. Len(self.resids) |-> self.resids[i].v * self.resids[i].v]))

\* ErrorMetrics.mse: a float divided by n = 0 is NaN.
mse(self) ==
    IF self.n = 0 THEN FNaN ELSE Hund(RoundDiv(sse(self).h, self.n))

\* ErrorMetrics.rmse: the hundredths of sqrt(M / 100) are sqrt(100 M), rounded.
rmse(self) ==
    IF mse(self) = FNaN THEN FNaN
    ELSE LET M == mse(self).h
         IN  Hund(CHOOSE h \in 0 .. M + 25 :
                      /\ h = 0 \/ (2 * h - 1) * (2 * h - 1) <= 400 * M
                      /\ 400 * M < (2 * h + 1) * (2 * h + 1))

\* ErrorMetrics.nash: 1 - mse / np.var(obs), not rounded; np.var is Var2 / n^2.
nash_noone(self) ==
    IF mse(self) = FNaN THEN FNaN
    ELSE IF Var2(self.obs) = 0 THEN (IF mse(self).h = 0 THEN FNaN ELSE FNegInf)
    ELSE Frac(mse(self).h * self.n * self.n, 100 * Var2(self.obs))

nash(self) ==
    IF mse(self) = FNaN THEN FNaN
    ELSE IF Var2(self.obs) = 0 THEN (IF mse(self).h = 0 THEN FNaN ELSE FNegInf)
    ELSE Frac(100 * Var2(self.obs) - mse(self).h * self.n * self.n, 100 * Var2(self.obs))

\* ErrorMetrics.mas
mas(self) ==
    IF self.n = 0 THEN FNaN
    ELSE Hund(RoundDiv(100 * Sum([i \in 1 .. Len(self.resids) |-> Abs(self.resids[i].v)]), self.n))

\* ErrorMetrics.meanerr
meanerr(self) ==
    IF self.n = 0 THEN FNaN
    ELSE Hund(RoundDiv(100 * Sum([i \in 1 .. Len(self.resids) |-> self.resids[i].v]), self.n))

\* The samples: paired arrays of up to MaxLen floats, and the two examples of
\* the documentation's properties; minval is None or a threshold.
Floats == {Num(0), Num(1), NaN}

Samples ==
    {[obs |-> o, est |-> e, minval |-> m] :
        o \in Seqs(Floats, MaxLen), e \in Seqs(Floats, MaxLen), m \in {None, Num(1)}}

PairedSamples ==
    {s \in Samples : Len(s.obs) = Len(s.est)}
        \cup {[obs |-> <<Num(1), Num(2), Num(3), NaN>>, est |-> <<Num(1), Num(2), NaN, Num(4)>>,
               minval |-> None],
              [obs |-> <<Num(0), Num(10), Num(20)>>, est |-> <<Num(0), Num(10), Num(20)>>,
               minval |-> Num(5)]}

\* ----------------------------------------------------------------- actions
Init ==
    /\ pn = None
    /\ built = None
    /\ last = "start"
    /\ err = "ok"
    /\ arg = None
    /\ vals = None
    /\ ret = None
    /\ em = None
    /\ emin = None
    /\ emret = None

\* pn = PolarNeighbours(r, az, sitecoords, projstr, x, y, nnear)
New(r, az, x, y, nnear) ==
    /\ LET bin  == polar2xy(r, az)
           data == TreeData(bin.x, bin.y)
           pts  == zip(x, y)
           e    == query_error(pts, nnear)
       IN  IF e # "ok"
           THEN /\ pn' = None
                /\ err' = e
           ELSE /\ \E rows \in query_rows(data, pts, nnear) :
                      pn' = PolarNeighbours_init(r, az, bin.x, bin.y, x, y, nnear, rows)
                /\ err' = "ok"
    /\ built' = pn'
    /\ last' = "construct"
    /\ arg' = None
    /\ vals' = None
    /\ ret' = None
    /\ UNCHANGED <<em, emin, emret>>

\* One instance is followed at a time: the first that construction yields.
Construct ==
    /\ pn = None
    /\ \E az \in AzSeqs, r \in RSeqs, x \in XSeqs, y \in YSeqs, k \in 0 .. MaxNear :
          /\ k <= Len(az) * Len(r) + 1
          /\ New(r, az, x, y, k)

Extract ==
    /\ pn # None
    /\ \E shape \in DataShapes(Len(pn.az), Len(pn.r)) :
          LET c == extract(pn, DataArray(shape))
          IN  /\ arg' = DataArray(shape)
              /\ pn' = c.self
              /\ err' = c.err
              /\ ret' = c.ret
              /\ vals' = c.vals
    /\ last' = "extract"
    /\ UNCHANGED <<built, em, emin, emret>>

GetBincoords ==
    /\ pn # None
    /\ LET c == get_bincoords(pn)
       IN  /\ pn' = c.self
           /\ err' = c.err
           /\ ret' = c.ret
    /\ last' = "get_bincoords"
    /\ arg' = None
    /\ vals' = None
    /\ UNCHANGED <<built, em, emin, emret>>

GetBincoordsAtPoints ==
    /\ pn # None
    /\ LET c == get_bincoords_at_points(pn)
       IN  /\ pn' = c.self
           /\ err' = c.err
           /\ ret' = c.ret
    /\ last' = "get_bincoords_at_points"
    /\ arg' = None
    /\ vals' = None
    /\ UNCHANGED <<built, em, emin, emret>>

Next == Construct \/ Extract \/ GetBincoords \/ GetBincoordsAtPoints

Spec == Init /\ [][Next]_vars

\* The round trip: an index of k = 1 whose points of interest are the bin
\* centroids themselves, in the order of the bins, over grids of pairwise
\* different azimuths (in any order) and increasing ranges.
Directions == {0, 90, 180, 270}

AzSeqsRT == {az \in Seqs(Directions, MaxAz) :
                Len(az) >= 1 /\ \A i, j \in 1 .. Len(az) : i # j => az[i] # az[j]}

RSeqsRT == {r \in Seqs(1 .. MaxRange + 1, MaxRange) :
                Len(r) >= 1 /\ \A j \in 1 .. Len(r) - 1 : r[j] < r[j + 1]}

ConstructRT ==
    /\ pn = None
    /\ \E az \in AzSeqsRT, r \in RSeqsRT :
          LET bin == polar2xy(r, az)
          IN  New(r, az, ravel(bin.x).flat, ravel(bin.y).flat, 1)

NextRT == ConstructRT \/ Extract \/ GetBincoords \/ GetBincoordsAtPoints

SpecRT == Init /\ [][NextRT]_vars

\* em = ErrorMetrics(obs, est, minval)
NewMetrics ==
    /\ em = None
    /\ \E s \in PairedSamples :
          /\ em' = ErrorMetrics_init(s.obs, s.est, s.minval)
          /\ emin' = s
    /\ emret' = None
    /\ UNCHANGED <<pn, built, last, err, arg, vals, ret>>

Metric(name, value) ==
    /\ em # None
    /\ emret' = [name |-> name, value |-> value]
    /\ UNCHANGED <<pn, built, last, err, arg, vals, ret, em, emin>>

Corr == Metric("corr", corr(em))

R2 == Metric("r2", r2(em))

Nash == Metric("nash", nash(em))

Sse == Metric("sse", sse(em))

Mse == Metric("mse", mse(em))

Rmse == Metric("rmse", rmse(em))

Mas == Metric("mas", mas(em))

Meanerr == Metric("meanerr", meanerr(em))

NextEM == NewMetrics \/ Corr \/ R2 \/ Nash \/ Sse \/ Mse \/ Rmse \/ Mas \/ Meanerr

SpecEM == Init /\ [][NextEM]_vars

\* ------------------------------------------------- the claims' vocabulary
\* Of the instance pn: the numbers of azimuths, range gates, bins and points
\* of interest, and the rank-j neighbour of point p (p, j counted from 0).
NumAz == Len(pn.az)

NumR == Len(pn.r)

NumBins == NumAz * NumR

NumPoints == Len(zip(pn.x, pn.y))

IndexAt(p, j) == pn.ix.flat[p * pn.nnear + j + 1]

DistAt(p, j) == pn.dist.flat[p * pn.nnear + j + 1]

\* data[l, a, b] of an array whose leading dimensions are flattened to l.
DataAt(data, l, a, b) ==
    LET A == data.shape[Len(data.shape) - 1]
        R == data.shape[Len(data.shape)]
    IN  data.flat[(l * A + a) * R + b + 1]

C2_ShapeAsClaimed ==
    (last = "extract" /\ err = "ok" /\ 1 <= pn.nnear /\ pn.nnear <= NumBins) =>
        ret.shape = AllButLast2(arg.shape) \o <<NumPoints, pn.nnear>>

\* C3: extract raises its assertion error, and returns nothing, exactly when
\* the data has fewer than two dimensions or its last two dimensions are not
\* (number of azimuths, number of range gates).
C3_ShapeMismatch ==
    last = "extract" =>
        /\ err = "AssertionError" <=>
              (Len(arg.shape) < 2 \/ Last2(arg.shape) # <<NumAz, NumR>>)
        /\ err = "AssertionError" => ret = None

C3_Witness ==
    /\ last = "extract" /\ err = "AssertionError"
    /\ Len(arg.shape) = 2 /\ arg.shape = <<NumR, NumAz>> /\ NumAz # NumR

\* C4 (as claimed): no instance exists whose x and y differ in length or
\* whose k exceeds the number of bins (construction raised instead).
C4_RejectsAsClaimed ==
    pn # None => (Len(pn.x) = Len(pn.y) /\ pn.nnear <= NumBins)

\* C5: with k <= A*R, the stored distances of every point are non-decreasing
\* in the neighbour rank, and each is the Euclidean distance (here squared)
\* from the point to the centroid of the bin whose index is stored with it.
C5_Distances ==
    (pn # None /\ pn.nnear <= NumBins) =>
        /\ pn.dist.shape = pn.ix.shape
        /\ \A p \in 0 .. NumPoints - 1 :
              /\ \A j \in 0 .. pn.nnear - 2 : DistAt(p, j) <= DistAt(p, j + 1)
              /\ \A j \in 0 .. pn.nnear - 1 :
                    /\ IndexAt(p, j) \in 0 .. NumBins - 1
                    /\ DistAt(p, j) = Dist2(zip(pn.x, pn.y)[p + 1],
                                            <<pn.binx.flat[IndexAt(p, j) + 1],
                                              pn.biny.flat[IndexAt(p, j) + 1]>>)

C5_Witness ==
    /\ pn # None /\ last = "construct"
    /\ pn.nnear = 3 /\ NumBins = 4 /\ NumPoints = 2
    /\ DistAt(1, 0) < DistAt(1, 1) /\ DistAt(1, 1) < DistAt(1, 2)

\* C6: the coordinates get_bincoords_at_points returns for point p and rank j
\* are those get_bincoords returns at the index stored for (p, j), and both
\* returned arrays have the shape of the index array.
C6_CoordsAtPoints ==
    (last = "get_bincoords_at_points" /\ err = "ok") =>
        LET all == get_bincoords(pn).ret
        IN  /\ ret.x.shape = pn.ix.shape
            /\ ret.y.shape = pn.ix.shape
            /\ \A p \in 0 .. NumPoints - 1, j \in 0 .. pn.nnear - 1 :
                  /\ ret.x.flat[p * pn.nnear + j + 1] = all.x.flat[IndexAt(p, j) + 1]
                  /\ ret.y.flat[p * pn.nnear + j + 1] = all.y.flat[IndexAt(p, j) + 1]

C6_Witness ==
    /\ last = "get_bincoords_at_points" /\ err = "ok"
    /\ NumPoints = 2 /\ pn.nnear = 2 /\ NumBins = 4
    /\ ret.x.flat # ret.y.flat

\* C10: a call of extract, get_bincoords or get_bincoords_at_points, failing
\* or not, leaves the instance as construction left it and the caller's array
\* as it was handed over; so extract returns for the same data what it
\* returns on a fresh instance, whatever calls came before.
C10_Frame ==
    (pn # None /\ last \in {"extract", "get_bincoords", "get_bincoords_at_points"}) =>
        /\ pn = built
        /\ last = "extract" =>
              /\ vals = arg
              /\ ret = extract(built, arg).ret
              /\ err = extract(built, arg).err

C10_Witness ==
    /\ last = "extract" /\ err = "AssertionError" /\ pn = built /\ vals = arg
    /\ arg.shape = <<NumAz, NumR + 1>> /\ pn.nnear = 2

CentroidsDistinct ==
    \A a, b \in 1 .. NumBins :
        a # b => <<pn.binx.flat[a], pn.biny.flat[a]>> # <<pn.binx.flat[b], pn.biny.flat[b]>>

BothValid ==
    {p \in 0 .. Min(Len(emin.obs), Len(emin.est)) - 1 :
        \A v \in {emin.obs[p + 1], emin.est[p + 1]} :
            ~v.nan /\ (emin.minval # None => v.v >= emin.minval.v)}

IsOne(v) == v = Hund(100) \/ (v.kind = "frac" /\ v.num = v.den)

IsZero(v) == v = Hund(0)

\* A metric was computed from identical obs and est, not filtered to nothing.
Identical == em # None /\ emret # None /\ emin.obs = emin.est /\ em.n >= 1

\* C9 (as claimed): identical obs and est with any entry left after the
\* filter give corr = r2 = nash = 1.0 and rmse = meanerr = sse = 0.0.
C9_AsClaimed ==
    Identical =>
        /\ emret.name \in {"corr", "r2", "nash"} => IsOne(emret.value)
        /\ emret.name \in {"rmse", "meanerr", "sse"} => IsZero(emret.value)

\* C9 (amended): identical obs and est give rmse = meanerr = sse = 0.0 when
\* any entry is left after the filter, and corr = r2 = nash = 1.0 when two
\* different values are left (obs has a variance that is not zero).
C9_Identical ==
    Identical =>
        /\ (emret.name \in {"corr", "r2", "nash"} /\ Var2(em.obs) # 0) => IsOne(emret.value)
        /\ emret.name \in {"rmse", "meanerr", "sse"} => IsZero(emret.value)

C9_Witness ==
    /\ Identical /\ emret.name = "nash" /\ IsOne(emret.value)
    /\ em.n = 2 /\ Len(emin.obs) = 3 /\ emin.minval = Num(5)

====
